---- MODULE Spec2Model ----
(***************************************************************************)
(* Subscription-status reconciliation of the GPT paywall API               *)
(* (Supabase backend): the users table, GET /check-access, the Stripe      *)
(* webhook ingress and its reconciliation handlers.                        *)
(*                                                                         *)
(* Values.  A text column or JSON string is a TLA+ string, JSON null is    *)
(* Null.  An ISO-8601 timestamp is the 1-tuple <<ms>> of its epoch         *)
(* milliseconds and a null/absent timestamp is <<>>.  A number that a      *)
(* payload may lack (current_period_end, in seconds) is likewise <<s>> or  *)
(* <<>>.  An e-mail address is the sequence of its characters, so that the *)
(* ILIKE pattern match of the store can be computed.  The column           *)
(* created_at is never read or written by the modelled code and is left    *)
(* out of the rows.                                                        *)
(***************************************************************************)
EXTENDS Integers, Sequences, FiniteSets, TLC

VARIABLES
    users,      \* the Supabase table: exact e-mail (unique) -> row
    now,        \* the wall clock, epoch milliseconds
    last,       \* the most recent request and the answer it got
    nzLog,      \* normalizer runs: <<token, result>> in order
    usersA,     \* replica A of the table (delivery-order comparison)
    usersB,     \* replica B of the table
    seenA,      \* events applied to replica A
    seenB,      \* events applied to replica B
    outbox,     \* the processor's view of one paid-invoice event
    faults,     \* remaining transient store failures
    stripeCustomers,      \* the processor's customers: index i is cus_i
    stripeSubscriptions,  \* the processor's subscriptions: index i is sub_i
    inflight,             \* requests being handled concurrently: id -> progress
    limiter,              \* rateLimitByApiKey: windowMs, max and the limits map
    rlLog                 \* what the limiter did with each request, in order

vars == <<users, now, last, nzLog, usersA, usersB, seenA, seenB, outbox, faults,
          stripeCustomers, stripeSubscriptions, inflight, limiter, rlLog>>

----------------------------------------------------------------------------
(* Bounds *)

MaxNow == 2          \* clock ticks (seconds) the clock may advance
MaxPeriodEnd == 2    \* largest current_period_end, in seconds
MaxBatch == 2        \* tokens normalised in one run of SpecNormalize
MaxFaults == 2       \* transient store failures in SpecRetry

----------------------------------------------------------------------------
(* Values *)

Null == "null"
NoDate == <<>>
MsPerSec == 1000

Iso(ms) == <<ms>>
ParseDate(iso) == iso[1]

\* new Date(seconds * 1000).toISOString(); an absent number gives
\* new Date(NaN).toISOString(), which throws RangeError.
ToISOString(seconds) == Iso(seconds[1] * MsPerSec)
ThrowsRangeError(seconds) == seconds = <<>>

PeriodEnds == {<<s>> : s \in 1..MaxPeriodEnd}
PayloadPeriodEnds == PeriodEnds \cup {<<>>}

EmailLower == <<"j", "o">>
EmailMixed == <<"J", "o">>
NoEmail == <<>>
ReqEmails == {EmailLower, EmailMixed}

LowerChar(c) == IF c = "J" THEN "j" ELSE IF c = "O" THEN "o" ELSE c
ToLower(s) == [i \in DOMAIN s |-> LowerChar(s[i])]

RECURSIVE Like(_, _)
Like(p, t) ==
    IF p = <<>> THEN t = <<>>
    ELSE IF Head(p) = "%"
         THEN Like(Tail(p), t) \/ (t # <<>> /\ Like(p, Tail(t)))
         ELSE /\ t # <<>>
              /\ (Head(p) = "_" \/ Head(p) = Head(t))
              /\ Like(Tail(p), Tail(t))

\* .ilike('email', pattern): PostgreSQL ILIKE, case-insensitive LIKE
ILike(pattern, text) == Like(ToLower(pattern), ToLower(text))

----------------------------------------------------------------------------
(* The users table *)

NewRow(email, t) ==
    [email |-> email, stripe_customer_id |-> Null, subscription_id |-> Null,
     plan |-> Null, status |-> Null, current_period_end |-> NoDate,
     updated_at |-> Iso(t)]

\* .select('*').ilike('email', email): the rows the pattern matches
SelectILike_Exact(tbl, pattern) == {e \in DOMAIN tbl : pattern = e}

SelectILike(tbl, pattern) == {e \in DOMAIN tbl : ILike(pattern, e)}

\* .insert([{ email }]): the unique constraint on email rejects a duplicate
InsertUser(tbl, email, t) ==
    [e \in DOMAIN tbl \cup {email} |->
        IF e = email THEN NewRow(email, t) ELSE tbl[e]]

Patch(row, updates) ==
    [f \in DOMAIN row |-> IF f \in DOMAIN updates THEN updates[f] ELSE row[f]]

\* .update(updates).ilike('email', pattern): every matching row is patched
StoreUpdate(tbl, pattern, updates) ==
    [e \in DOMAIN tbl |->
        IF ILike(pattern, e) THEN Patch(tbl[e], updates) ELSE tbl[e]]

----------------------------------------------------------------------------
(* Access policy: GET /check-access *)

JsTrue == "true"
JsFalse == "false"

JsBool(b) == IF b THEN JsTrue ELSE JsFalse

\* new Date(user.current_period_end), or null when the column is null
PeriodEndOf(user) ==
    IF user.current_period_end = NoDate THEN NoDate
    ELSE Iso(ParseDate(user.current_period_end))

\* (status === 'active' || status === 'trialing') && periodEnd && periodEnd > now
\* with the value JavaScript's && gives: the first falsy operand, else the last.
HasAccess_NoExpiry(user, t) ==
    IF ~(user.status = "active" \/ user.status = "trialing") THEN JsFalse
    ELSE IF PeriodEndOf(user) = NoDate THEN Null
    ELSE JsTrue

HasAccess(user, t) ==
    IF ~(user.status = "active" \/ user.status = "trialing") THEN JsFalse
    ELSE IF PeriodEndOf(user) = NoDate THEN Null
    ELSE JsBool(ParseDate(PeriodEndOf(user)) > t)

\* No exchange is being observed
Idle == [op |-> "idle"]

\* rateLimitByApiKey({ windowMs = 15 * 60 * 1000, max = 100 } = {})
DefaultMax == 100
DefaultWindowMs == 15 * 60 * MsPerSec

\* The limiter as the module is loaded: the defaults, const limits = new Map()
NoLimiter == [windowMs |-> DefaultWindowMs, max |-> DefaultMax, limits |-> <<>>]

ApiKeys == {"none", "wrong", "right"}

\* authenticateApiKey: the HTTP status it answers, 0 when it calls next()
AuthenticateApiKey(key, configured) ==
    IF key = "none" THEN 401
    ELSE IF ~configured THEN 500
    ELSE IF key # "right" THEN 401
    ELSE 0

AccessBody(user, created, t) ==
    [has_access |-> HasAccess(user, t),
     plan |-> user.plan,
     status |-> user.status,
     current_period_end |-> PeriodEndOf(user),
     user_created |-> created]

\* The answer when the record could not be created
NotCreatedBody_Granted ==
    [has_access |-> JsTrue, plan |-> Null, status |-> Null,
     current_period_end |-> NoDate]

NotCreatedBody ==
    [has_access |-> JsFalse, plan |-> Null, status |-> Null,
     current_period_end |-> NoDate]

CheckAccess ==
    /\ last = Idle
    /\ \E key \in ApiKeys, configured \in BOOLEAN, email \in ReqEmails \cup {NoEmail},
       findOk \in BOOLEAN, createOk \in BOOLEAN :
      LET auth == AuthenticateApiKey(key, configured)
          matches == SelectILike(users, email)
          base == [op |-> "check-access", now |-> now, email |-> email,
                   key |-> key, configured |-> configured]
      IN
      /\ IF auth # 0 THEN
            /\ findOk /\ createOk /\ email = NoEmail
            /\ last' = [base EXCEPT !.email = NoEmail] @@ [code |-> auth]
            /\ users' = users
         ELSE IF email = NoEmail THEN
            /\ findOk /\ createOk
            /\ last' = base @@ [code |-> 400]
            /\ users' = users
         ELSE IF ~findOk THEN
            /\ createOk
            /\ last' = base @@ [code |-> 500]
            /\ users' = users
         ELSE IF matches = {} THEN
            IF createOk THEN
               /\ users' = InsertUser(users, email, now)
               /\ last' = base @@ [code |-> 200, found |-> TRUE,
                                   user |-> NewRow(email, now),
                                   body |-> AccessBody(NewRow(email, now), TRUE, now)]
            ELSE
               /\ users' = users
               /\ last' = base @@ [code |-> 200, found |-> FALSE,
                                   body |-> NotCreatedBody]
         ELSE
            /\ createOk
            /\ \E e \in matches :
                  last' = base @@ [code |-> 200, found |-> TRUE,
                                   user |-> users[e],
                                   body |-> AccessBody(users[e], FALSE, now)]
            /\ users' = users
      /\ UNCHANGED <<now, nzLog, usersA, usersB, seenA, seenB, outbox, faults,
                 stripeCustomers, stripeSubscriptions, inflight, limiter, rlLog>>

Tick ==
    /\ last = Idle
    /\ now < MaxNow * MsPerSec
    /\ now' = now + MsPerSec
    /\ UNCHANGED <<users, last, nzLog, usersA, usersB, seenA, seenB, outbox, faults,
                 stripeCustomers, stripeSubscriptions, inflight, limiter, rlLog>>

----------------------------------------------------------------------------
(* Event Normalizer *)

Undefined == "undefined"
Inherited == "[inherited from Object.prototype]"

StatusMap ==
    [k \in {"active", "trialing", "past_due", "unpaid", "canceled",
            "incomplete", "incomplete_expired"} |->
        CASE k = "active" -> "active"
          [] k = "trialing" -> "trialing"
          [] k = "past_due" -> "past_due"
          [] k = "unpaid" -> "past_due"
          [] k = "canceled" -> "canceled"
          [] k = "incomplete" -> "pending"
          [] k = "incomplete_expired" -> "none"]

\* Property names every object literal inherits from Object.prototype
ObjectPrototypeKeys ==
    {"constructor", "toString", "valueOf", "hasOwnProperty", "isPrototypeOf",
     "propertyIsEnumerable", "toLocaleString", "__proto__"}

\* map[key] on an object literal: own property, else the prototype chain,
\* else undefined (the key undefined is looked up as "undefined")
JsLookup(map, key) ==
    IF key \in DOMAIN map THEN map[key]
    ELSE IF key \in ObjectPrototypeKeys THEN Inherited
    ELSE Undefined

\* statusMap[stripeStatus] || 'none'
MapStripeStatusToDb_AlwaysActive(stripeStatus) == "active"

MapStripeStatusToDb(stripeStatus) ==
    LET v == JsLookup(StatusMap, stripeStatus)
    IN IF v = Undefined THEN "none" ELSE v

----------------------------------------------------------------------------
(* The payment processor, as the webhook handlers see it *)

CustomerIds == {"cus_1"}
SubscriptionIds == {"sub_1"}
InvoiceIds == {"in_1"}

\* Addresses whose characters are wildcards of LIKE: '_' and '%'
EmailUnderscore == <<"_", "o">>
EmailPercent == <<"j", "%">>

\* customer.email of the upstream customer object
CustomerEmail(c) ==
    CASE c = "cus_2" -> EmailUnderscore
      [] c = "cus_3" -> EmailPercent
      [] OTHER -> EmailMixed

StripeStatuses ==
    {"active", "trialing", "past_due", "unpaid", "canceled", "incomplete",
     "incomplete_expired", "paused"}
CollectionMethods == {"charge_automatically", "send_invoice"}
InvoiceStatuses == {"draft", "open", "paid"}

EventTypes ==
    {"checkout.session.completed", "customer.subscription.updated",
     "customer.subscription.deleted", "invoice.payment_succeeded",
     "invoice.created"}

NoObject == [id |-> Null]

\* What the processor answers to the handler's retrievals: whether
\* customers.retrieve, invoices.retrieve and subscriptions.retrieve succeed,
\* the status of the latest invoice and the period end of the subscription.
Upstreams ==
    [custOk : BOOLEAN, invOk : BOOLEAN, invStatus : InvoiceStatuses,
     subOk : BOOLEAN, subPeriodEnd : PayloadPeriodEnds]

NoUpstream ==
    [custOk |-> TRUE, invOk |-> TRUE, invStatus |-> "paid", subOk |-> TRUE,
     subPeriodEnd |-> <<>>]

\* The strict check applies to this subscription
StrictApplies(subscription) ==
    /\ subscription.status = "active"
    /\ subscription.collection_method = "send_invoice"

\* Events.  A field or an upstream answer that the handler does not read on
\* the path it takes is held at its default, so that two events differ only
\* where the code can tell them apart.
SampleSubscription(status) ==
    [id |-> "sub_1", customer |-> "cus_1", status |-> status,
     collection_method |-> "send_invoice", latest_invoice |-> "in_1",
     current_period_end |-> <<1>>]

SubscriptionPayloads(statuses) ==
    {[SampleSubscription(x[1]) EXCEPT !.collection_method = x[2],
                                      !.latest_invoice = x[3],
                                      !.current_period_end = x[4]] :
        x \in {y \in statuses \X CollectionMethods \X (InvoiceIds \cup {Null})
                       \X PeriodEnds :
                 /\ (y[1] # "active" => y[2] = "send_invoice")
                 /\ (~(y[1] = "active" /\ y[2] = "send_invoice") => y[3] = "in_1")}}

InvoiceAnswers(subscription) ==
    IF StrictApplies(subscription) /\ subscription.latest_invoice # Null
    THEN {[NoUpstream EXCEPT !.invOk = a, !.invStatus = st] :
            a \in BOOLEAN, st \in InvoiceStatuses}
    ELSE {NoUpstream}

SubscriptionEvents(type, statuses) ==
    LET sample == SampleSubscription(CHOOSE st \in statuses : st \in {"active", "canceled"})
    IN
    {[type |-> type, obj |-> x[1], up |-> x[2]] :
        x \in {y \in SubscriptionPayloads(statuses) \X Upstreams :
                 y[2] \in InvoiceAnswers(y[1])}}
    \cup {[type |-> type, obj |-> sample,
           up |-> [NoUpstream EXCEPT !.custOk = FALSE]],
          [type |-> type,
           obj |-> [sample EXCEPT !.current_period_end = <<>>],
           up |-> NoUpstream]}

SampleSession == [customer |-> "cus_1", subscription |-> "sub_1"]

SessionEvents ==
    {[type |-> "checkout.session.completed", obj |-> SampleSession, up |-> u] :
        u \in {[NoUpstream EXCEPT !.custOk = FALSE],
               [NoUpstream EXCEPT !.subOk = FALSE]}
              \cup {[NoUpstream EXCEPT !.subPeriodEnd = p] : p \in PayloadPeriodEnds}}

InvoiceEvents ==
    {[type |-> "invoice.payment_succeeded",
      obj |-> [customer |-> "cus_1", subscription |-> x[1]],
      up |-> [NoUpstream EXCEPT !.custOk = x[2]]] :
        x \in (SubscriptionIds \cup {Null}) \X BOOLEAN}

OtherEvents == {[type |-> "invoice.created", obj |-> NoObject, up |-> NoUpstream]}

Events ==
    SessionEvents
    \cup SubscriptionEvents("customer.subscription.updated", StripeStatuses)
    \cup SubscriptionEvents("customer.subscription.deleted", {"canceled"})
    \cup InvoiceEvents
    \cup OtherEvents

\* One event of each type: what a sender without the signing secret posts
SampleEvents ==
    {[type |-> "checkout.session.completed", obj |-> SampleSession,
      up |-> [NoUpstream EXCEPT !.subPeriodEnd = <<1>>]],
     [type |-> "customer.subscription.updated",
      obj |-> [SampleSubscription("active") EXCEPT
                  !.collection_method = "charge_automatically"],
      up |-> NoUpstream],
     [type |-> "customer.subscription.deleted",
      obj |-> SampleSubscription("canceled"), up |-> NoUpstream],
     [type |-> "invoice.payment_succeeded",
      obj |-> [customer |-> "cus_1", subscription |-> "sub_1"],
      up |-> NoUpstream]}
    \cup OtherEvents

----------------------------------------------------------------------------
(* Subscription Reconciler *)

\* What a handler did: the processor calls it made, the store write it
\* issued, and whether it threw
Threw(calls) == [threw |-> TRUE, writes |-> {}, calls |-> calls]
Returned(calls) == [threw |-> FALSE, writes |-> {}, calls |-> calls]
Wrote(calls, email, updates) ==
    [threw |-> FALSE, writes |-> {[email |-> email, updates |-> updates]},
     calls |-> calls]

HandleCheckoutComplete_StatusOnly(session, up) ==
    IF ~up.custOk THEN Threw({"customers.retrieve"})
    ELSE IF ~up.subOk \/ ThrowsRangeError(up.subPeriodEnd)
    THEN Threw({"customers.retrieve", "subscriptions.retrieve"})
    ELSE Wrote({"customers.retrieve", "subscriptions.retrieve"},
               CustomerEmail(session.customer), [status |-> "active"])

HandleCheckoutComplete(session, up) ==
    IF ~up.custOk THEN Threw({"customers.retrieve"})
    ELSE IF ~up.subOk \/ ThrowsRangeError(up.subPeriodEnd)
    THEN Threw({"customers.retrieve", "subscriptions.retrieve"})
    ELSE Wrote({"customers.retrieve", "subscriptions.retrieve"},
               CustomerEmail(session.customer),
               [status |-> "active",
                subscription_id |-> session.subscription,
                current_period_end |-> ToISOString(up.subPeriodEnd)])

\* dbStatus after the strict check
StrictStatus_Nominal(subscription, up) ==
    MapStripeStatusToDb(subscription.status)

StrictStatus_FailSafe(subscription, up) ==
    IF /\ StrictApplies(subscription)
       /\ subscription.latest_invoice # Null
       /\ (~up.invOk \/ up.invStatus # "paid")
    THEN "awaiting_payment"
    ELSE MapStripeStatusToDb(subscription.status)

StrictStatus(subscription, up) ==
    IF /\ StrictApplies(subscription)
       /\ subscription.latest_invoice # Null
       /\ up.invOk
       /\ up.invStatus # "paid"
    THEN "awaiting_payment"
    ELSE MapStripeStatusToDb(subscription.status)

\* The processor calls handleSubscriptionUpdate makes once the customer is
\* retrieved
StrictCalls(subscription) ==
    IF StrictApplies(subscription) /\ subscription.latest_invoice # Null
    THEN {"customers.retrieve", "invoices.retrieve"}
    ELSE {"customers.retrieve"}

HandleSubscriptionUpdate(subscription, up) ==
    IF ~up.custOk THEN Threw({"customers.retrieve"})
    ELSE IF ThrowsRangeError(subscription.current_period_end)
    THEN Threw(StrictCalls(subscription))
    ELSE Wrote(StrictCalls(subscription),
               CustomerEmail(subscription.customer),
               [status |-> StrictStatus(subscription, up),
                current_period_end |->
                    ToISOString(subscription.current_period_end)])

HandleInvoicePaid_StampOnly(invoice, up, t) ==
    IF invoice.subscription = Null THEN Returned({})
    ELSE IF ~up.custOk THEN Threw({"customers.retrieve"})
    ELSE Wrote({"customers.retrieve"}, CustomerEmail(invoice.customer), [updated_at |-> Iso(t)])

HandleInvoicePaid_Renew(invoice, up, t) ==
    IF invoice.subscription = Null THEN Returned({})
    ELSE IF ~up.custOk THEN Threw({"customers.retrieve"})
    ELSE Wrote({"customers.retrieve"}, CustomerEmail(invoice.customer),
               [status |-> "active", updated_at |-> Iso(t),
                current_period_end |-> Iso(t + MsPerSec)])

HandleInvoicePaid_AnyInvoice(invoice, up, t) ==
    IF ~up.custOk THEN Threw({"customers.retrieve"})
    ELSE Wrote({"customers.retrieve"}, CustomerEmail(invoice.customer),
               [status |-> "active", updated_at |-> Iso(t)])

HandleInvoicePaid(invoice, up, t) ==
    IF invoice.subscription = Null THEN Returned({})
    ELSE IF ~up.custOk THEN Threw({"customers.retrieve"})
    ELSE Wrote({"customers.retrieve"}, CustomerEmail(invoice.customer),
               [status |-> "active", updated_at |-> Iso(t)])

\* updateUserStatus: a store error is logged, nothing is thrown
UpdateUserStatus(tbl, email, updates, storeOk) ==
    IF storeOk THEN StoreUpdate(tbl, email, updates) ELSE tbl

----------------------------------------------------------------------------
(* Webhook ingress *)

Signatures == {"missing", "invalid", "valid"}

\* The signature header and the configured secret admit the request
Verified_Unchecked(sig, secret) == TRUE

Verified(sig, secret) ==
    /\ sig # "missing" /\ secret
    /\ sig = "valid"

Dispatch_UnknownFails(ev, t) ==
    CASE ev.type = "checkout.session.completed" ->
            HandleCheckoutComplete(ev.obj, ev.up)
      [] ev.type \in {"customer.subscription.updated",
                      "customer.subscription.deleted"} ->
            HandleSubscriptionUpdate(ev.obj, ev.up)
      [] ev.type = "invoice.payment_succeeded" ->
            HandleInvoicePaid(ev.obj, ev.up, t)
      [] OTHER -> Threw({})

Dispatch(ev, t) ==
    CASE ev.type = "checkout.session.completed" ->
            HandleCheckoutComplete(ev.obj, ev.up)
      [] ev.type \in {"customer.subscription.updated",
                      "customer.subscription.deleted"} ->
            HandleSubscriptionUpdate(ev.obj, ev.up)
      [] ev.type = "invoice.payment_succeeded" ->
            HandleInvoicePaid(ev.obj, ev.up, t)
      [] OTHER -> Returned({})

HandlerOf(type) ==
    CASE type = "checkout.session.completed" -> "handleCheckoutComplete"
      [] type \in {"customer.subscription.updated",
                   "customer.subscription.deleted"} -> "handleSubscriptionUpdate"
      [] type = "invoice.payment_succeeded" -> "handleInvoicePaid"
      [] OTHER -> "none"

\* stripeWebhookHandler: the answer, the handler run, the writes it issued
\* and the table afterwards
StripeWebhookHandler(tbl, sig, secret, ev, storeOk, t) ==
    IF ~Verified(sig, secret) THEN
        [code |-> 400, handler |-> "none", writes |-> {}, calls |-> {},
         users |-> tbl]
    ELSE
        LET h == Dispatch(ev, t)
            after ==
                IF h.writes = {} THEN tbl
                ELSE LET w == CHOOSE w \in h.writes : TRUE
                     IN UpdateUserStatus(tbl, w.email, w.updates, storeOk)
        IN [code |-> IF h.threw THEN 500 ELSE 200,
            handler |-> HandlerOf(ev.type),
            writes |-> h.writes,
            calls |-> h.calls,
            users |-> after]

\* One delivery to POST /webhook at time t.  The exchange records whether
\* the store applied the write (applied), whether it applied the write of an
\* earlier delivery of the same event (appliedBefore), and the statuses the
\* matched rows had when a paid invoice or a completed checkout arrived
\* (before).
WebhookStep(sig, secret, ev, storeOk, t, again) ==
    LET out == StripeWebhookHandler(users, sig, secret, ev, storeOk, t)
        matched == UNION {SelectILike(users, w.email) : w \in out.writes}
    IN
    /\ (out.writes = {} => storeOk)
    /\ users' = out.users
    /\ last' = [op |-> "webhook", now |-> t, sig |-> sig, secret |-> secret,
                event |-> ev, storeOk |-> storeOk, code |-> out.code,
                handler |-> out.handler, writes |-> out.writes,
                calls |-> out.calls,
                applied |-> (out.writes # {} /\ storeOk),
                redelivery |-> again,
                appliedBefore |-> (again /\ (last.applied \/ last.appliedBefore)),
                before |-> IF out.handler \in {"handleInvoicePaid",
                                                "handleCheckoutComplete"}
                           THEN {users[e].status : e \in matched} ELSE {}]

\* The processor delivers an event it signed
Webhook ==
    /\ last = Idle
    /\ \E ev \in Events, storeOk \in BOOLEAN :
          WebhookStep("valid", TRUE, ev, storeOk, now, FALSE)
    /\ UNCHANGED <<now, nzLog, usersA, usersB, seenA, seenB, outbox, faults,
                 stripeCustomers, stripeSubscriptions, inflight, limiter, rlLog>>

\* A delivery without a valid signature, or to a server without the secret
WebhookUnsigned ==
    /\ last = Idle
    /\ \E sig \in Signatures, secret \in BOOLEAN, ev \in SampleEvents :
          /\ ~(sig = "valid" /\ secret)
          /\ WebhookStep(sig, secret, ev, TRUE, now, FALSE)
    /\ UNCHANGED <<now, nzLog, usersA, usersB, seenA, seenB, outbox, faults,
                 stripeCustomers, stripeSubscriptions, inflight, limiter, rlLog>>

\* The sender delivers the event of the last delivery once more, after some
\* delay (at-least-once delivery); what the processor answers to the
\* handler's retrievals may have changed in between
Redeliver ==
    /\ last.op = "webhook"
    /\ \E dt \in 0..MaxNow, storeOk \in BOOLEAN, ev \in Events \cup SampleEvents :
          /\ ev.type = last.event.type
          /\ ev.obj = last.event.obj
          /\ (last.event \in SampleEvents \ Events => ev = last.event)
          /\ now + dt * MsPerSec <= MaxNow * MsPerSec
          /\ now' = now + dt * MsPerSec
          /\ WebhookStep(last.sig, last.secret, ev, storeOk, now', TRUE)
    /\ UNCHANGED <<nzLog, usersA, usersB, seenA, seenB, outbox, faults,
                 stripeCustomers, stripeSubscriptions, inflight, limiter, rlLog>>

\* The exchange is over: the next request finds the server idle
Settle ==
    /\ last # Idle
    /\ last' = Idle
    /\ UNCHANGED <<users, now, nzLog, usersA, usersB, seenA, seenB, outbox, faults,
                 stripeCustomers, stripeSubscriptions, inflight, limiter, rlLog>>

----------------------------------------------------------------------------
(* The sequential service *)

Init ==
    /\ users = <<>>
    /\ now = 0
    /\ last = Idle
    /\ nzLog = <<>>
    /\ usersA = <<>>
    /\ usersB = <<>>
    /\ seenA = {}
    /\ seenB = {}
    /\ outbox = "idle"
    /\ faults = 0
    /\ stripeCustomers = <<>>
    /\ stripeSubscriptions = <<>>
    /\ inflight = <<>>
    /\ limiter = NoLimiter
    /\ rlLog = <<>>

Next ==
    \/ CheckAccess
    \/ Webhook
    \/ WebhookUnsigned
    \/ Redeliver
    \/ Settle
    \/ Tick

Spec == Init /\ [][Next]_vars

----------------------------------------------------------------------------
(* The normalizer on a batch of tokens *)

Tokens ==
    StripeStatuses \cup {"some_future_status", "constructor", "toString", Undefined}

Normalize ==
    /\ Len(nzLog) < MaxBatch
    /\ \E tok \in Tokens :
          nzLog' = Append(nzLog, <<tok, MapStripeStatusToDb(tok)>>)
    /\ UNCHANGED <<users, now, last, usersA, usersB, seenA, seenB, outbox, faults,
                 stripeCustomers, stripeSubscriptions, inflight, limiter, rlLog>>

SpecNormalize == Init /\ [][Normalize]_vars

----------------------------------------------------------------------------
(* Two replicas of one record, fed the same events in any order *)

OrderEvents ==
    {ev \in Events :
        /\ ev.up.custOk /\ ev.up.subOk /\ ev.up.invOk
        /\ \/ /\ ev.type = "customer.subscription.deleted"
              /\ ev.obj.current_period_end = <<1>>
           \/ /\ ev.type = "invoice.payment_succeeded"
              /\ ev.obj.subscription # Null
           \/ /\ ev.type = "customer.subscription.updated"
              /\ ev.obj.status = "active"
              /\ ev.obj.latest_invoice # Null
              /\ ev.up.invStatus \in {"open", "paid"}
              /\ ev.obj.current_period_end = <<MaxPeriodEnd>>
           \/ /\ ev.type = "checkout.session.completed"
              /\ ev.up.subPeriodEnd = <<MaxPeriodEnd>>}

InitOrder ==
    /\ users = <<>>
    /\ now = 0
    /\ last = Idle
    /\ nzLog = <<>>
    /\ usersA = InsertUser(<<>>, EmailLower, 0)
    /\ usersB = InsertUser(<<>>, EmailLower, 0)
    /\ seenA = {}
    /\ seenB = {}
    /\ outbox = "idle"
    /\ faults = 0
    /\ stripeCustomers = <<>>
    /\ stripeSubscriptions = <<>>
    /\ inflight = <<>>
    /\ limiter = NoLimiter
    /\ rlLog = <<>>

Delivered(tbl, ev) ==
    StripeWebhookHandler(tbl, "valid", TRUE, ev, TRUE, now).users

DeliverA ==
    /\ \E ev \in OrderEvents :
          /\ usersA' = Delivered(usersA, ev)
          /\ seenA' = seenA \cup {ev}
    /\ UNCHANGED <<users, now, last, nzLog, usersB, seenB, outbox, faults,
                 stripeCustomers, stripeSubscriptions, inflight, limiter, rlLog>>

DeliverB ==
    /\ \E ev \in OrderEvents :
          /\ usersB' = Delivered(usersB, ev)
          /\ seenB' = seenB \cup {ev}
    /\ UNCHANGED <<users, now, last, nzLog, usersA, seenA, outbox, faults,
                 stripeCustomers, stripeSubscriptions, inflight, limiter, rlLog>>

NextOrder ==
    \/ DeliverA
    \/ DeliverB

SpecOrder == InitOrder /\ [][NextOrder]_vars

----------------------------------------------------------------------------
(* The processor redelivers a paid invoice until the webhook answers 2xx *)

PaidEvents == {ev \in InvoiceEvents : ev.obj.subscription # Null}

AwaitingRow(email, periodEnd) ==
    [NewRow(email, 0) EXCEPT !.status = "awaiting_payment",
                             !.current_period_end = ToISOString(periodEnd)]

InitRetry ==
    /\ \E p \in PeriodEnds :
          users = [e \in {EmailLower} |-> AwaitingRow(e, p)]
    /\ now = 0
    /\ last = Idle
    /\ nzLog = <<>>
    /\ usersA = <<>>
    /\ usersB = <<>>
    /\ seenA = {}
    /\ seenB = {}
    /\ outbox = "pending"
    /\ faults \in 0..MaxFaults
    /\ stripeCustomers = <<>>
    /\ stripeSubscriptions = <<>>
    /\ inflight = <<>>
    /\ limiter = NoLimiter
    /\ rlLog = <<>>

\* A delivery attempt; a failing upstream or store call uses up one of the
\* transient faults.  The processor stops at a 2xx answer.
RetryDeliver ==
    /\ outbox = "pending"
    /\ \E ev \in PaidEvents, storeOk \in BOOLEAN :
          LET failing == (IF ev.up.custOk THEN 0 ELSE 1) + (IF storeOk THEN 0 ELSE 1)
          IN
          /\ failing <= faults
          /\ faults' = faults - failing
          /\ WebhookStep("valid", TRUE, ev, storeOk, now, last.op = "webhook")
          /\ outbox' = IF last'.code = 200 THEN "acked" ELSE "pending"
    /\ UNCHANGED <<now, nzLog, usersA, usersB, seenA, seenB,
                   stripeCustomers, stripeSubscriptions, inflight, limiter, rlLog>>

RetryTick ==
    /\ now < MaxNow * MsPerSec
    /\ now' = now + MsPerSec
    /\ UNCHANGED <<users, last, nzLog, usersA, usersB, seenA, seenB, outbox, faults,
                 stripeCustomers, stripeSubscriptions, inflight, limiter, rlLog>>

NextRetry ==
    \/ RetryDeliver
    \/ RetryTick

SpecRetry == InitRetry /\ [][NextRetry]_vars /\ WF_vars(RetryDeliver)

----------------------------------------------------------------------------
(* The payment processor, as POST /create-checkout-session sees it *)

MaxSubs == 2         \* subscriptions the processor comes to hold
TrialPeriod == 1     \* trial_period_days: 1, one tick of the clock
ListLimit == 10      \* subscriptions.list({ limit: 10 })

CustomerIdOf(i) == "cus_" \o ToString(i)
SubscriptionIdOf(i) == "sub_" \o ToString(i)

\* The call of the request that throws, if any
Faults ==
    {"none", "customers.retrieve", "customers.list", "customers.create",
     "subscriptions.list", "subscriptions.create"}

\* stripe.customers.list({ email, limit: 1 }): the filter compares the
\* address as it is written; the most recent customer comes first
CustomersList(custs, email) == {i \in DOMAIN custs : custs[i] = email}

Latest(indices) == CHOOSE i \in indices : \A j \in indices : j <= i

\* Get or create Stripe customer: the stored reference, else the search by
\* e-mail, else a new customer
ResolveCustomer_NoSearch(custs, user, email, fail) ==
    LET stored == user.stripe_customer_id # Null
        first == IF stored THEN {"customers.retrieve"} ELSE {}
        none == [threw |-> TRUE, id |-> Null, custs |-> custs,
                 tier |-> "none", calls |-> first]
    IN
    IF stored /\ fail # "customers.retrieve" THEN
        [none EXCEPT !.threw = FALSE, !.id = user.stripe_customer_id,
                     !.tier = "stored"]
    ELSE IF fail = "customers.create" THEN
        [none EXCEPT !.calls = first \cup {"customers.create"}]
    ELSE
        [none EXCEPT !.threw = FALSE, !.id = CustomerIdOf(Len(custs) + 1),
                     !.custs = Append(custs, email),
                     !.tier = "created",
                     !.calls = first \cup {"customers.create"}]

ResolveCustomer(custs, user, email, fail) ==
    LET stored == user.stripe_customer_id # Null
        first == IF stored THEN {"customers.retrieve"} ELSE {}
        found == CustomersList(custs, email)
        none == [threw |-> TRUE, id |-> Null, custs |-> custs,
                 tier |-> "none", calls |-> first]
    IN
    IF stored /\ fail # "customers.retrieve" THEN
        [none EXCEPT !.threw = FALSE, !.id = user.stripe_customer_id,
                     !.tier = "stored"]
    ELSE IF fail = "customers.list" THEN
        [none EXCEPT !.calls = first \cup {"customers.list"}]
    ELSE IF found # {} THEN
        [none EXCEPT !.threw = FALSE, !.id = CustomerIdOf(Latest(found)),
                     !.tier = "search",
                     !.calls = first \cup {"customers.list"}]
    ELSE IF fail = "customers.create" THEN
        [none EXCEPT !.calls = first \cup {"customers.list", "customers.create"}]
    ELSE
        [none EXCEPT !.threw = FALSE, !.id = CustomerIdOf(Len(custs) + 1),
                     !.custs = Append(custs, email),
                     !.tier = "created",
                     !.calls = first \cup {"customers.list", "customers.create"}]

\* subscriptions.list({ customer, status: 'all', limit: 10 }): the
\* customer's subscriptions, the most recent ListLimit of them
Listed(subs, customer) ==
    LET own == {i \in DOMAIN subs : subs[i].customer = customer}
    IN {i \in own : Cardinality({j \in own : j > i}) < ListLimit}

\* existingSubscriptions.data.find(active or trialing), 0 when none
ActiveSubscription(subs, customer) ==
    LET hits == {i \in Listed(subs, customer) :
                    subs[i].status = "active" \/ subs[i].status = "trialing"}
    IN IF hits = {} THEN 0 ELSE Latest(hits)

\* What stripe.subscriptions.create answers: with a trial the subscription
\* starts trialing, its period ending with the trial
NewSubscription(i, customer, t) ==
    [id |-> SubscriptionIdOf(i), customer |-> customer, status |-> "trialing",
     collection_method |-> "send_invoice", invoice |-> "none",
     current_period_end |-> <<(t \div MsPerSec) + TrialPeriod>>]

\* Reuse the active or trialing subscription, else create one
ResolveSubscription(subs, customer, fail, t) ==
    LET active == ActiveSubscription(subs, customer)
        none == [threw |-> TRUE, index |-> 0, created |-> FALSE, subs |-> subs,
                 calls |-> {"subscriptions.list"}]
    IN
    IF fail = "subscriptions.list" THEN none
    ELSE IF active # 0 THEN [none EXCEPT !.threw = FALSE, !.index = active]
    ELSE IF fail = "subscriptions.create" THEN
        [none EXCEPT !.calls = {"subscriptions.list", "subscriptions.create"}]
    ELSE
        [none EXCEPT !.threw = FALSE, !.index = Len(subs) + 1,
                     !.created = TRUE,
                     !.subs = Append(subs, NewSubscription(Len(subs) + 1,
                                                           customer, t)),
                     !.calls = {"subscriptions.list", "subscriptions.create"}]

----------------------------------------------------------------------------
(* Checkout orchestrator: POST /create-checkout-session *)

PlanMap == [k \in {"pro", "free"} |-> IF k = "pro" THEN "Pro" ELSE "Free"]

\* plan_tier of the request body: absent, or a tier as the caller typed it
PlanInputs == {Undefined, "FREE "}

\* planInput.trim().toLowerCase()
TrimLower(planInput) == IF planInput = "FREE " THEN "free" ELSE planInput

\* normalizePlanOption(plan_tier || plan || 'pro')
NormalizePlanOption(planTier) ==
    LET planInput == IF planTier = Undefined THEN "pro" ELSE planTier
        v == JsLookup(PlanMap, TrimLower(planInput))
    IN IF v = Undefined THEN planInput ELSE v

\* dbStatus of the route: the mapped status, awaiting_payment for an active
\* send_invoice subscription
CheckoutStatus(subscription) ==
    IF StrictApplies(subscription) THEN "awaiting_payment"
    ELSE MapStripeStatusToDb(subscription.status)

UpdateFields(customerId, subscription, plan, t) ==
    [stripe_customer_id |-> customerId,
     subscription_id |-> subscription.id,
     status |-> CheckoutStatus(subscription),
     plan |-> plan,
     updated_at |-> Iso(t)]
    @@ (IF subscription.current_period_end # <<>>
        THEN [current_period_end |-> ToISOString(subscription.current_period_end)]
        ELSE <<>>)

\* The request ends before the store update: tbl is the table it leaves
\* and custs the customers the processor then holds
CheckoutEnds(base, code, calls, tbl, custs) ==
    /\ users' = tbl
    /\ stripeCustomers' = custs
    /\ stripeSubscriptions' = stripeSubscriptions
    /\ last' = base @@ [code |-> code, calls |-> calls]

CheckoutProceeds(base, e, tbl, storeCalls, planTier, fail, storeOk) ==
    LET c == ResolveCustomer(stripeCustomers, tbl[e], base.email, fail)
        sr == ResolveSubscription(stripeSubscriptions, c.id, fail, now)
        subscription == sr.subs[sr.index]
        updateFields ==
            UpdateFields(c.id, subscription, NormalizePlanOption(planTier), now)
    IN
    IF c.threw THEN
        CheckoutEnds(base, 500, storeCalls \cup c.calls, tbl, c.custs)
    ELSE IF sr.threw THEN
        CheckoutEnds(base, 500, storeCalls \cup c.calls \cup sr.calls, tbl, c.custs)
    ELSE
        /\ Len(sr.subs) <= MaxSubs
        /\ users' = IF storeOk
                    THEN [tbl EXCEPT ![e] = Patch(tbl[e], updateFields)]
                    ELSE tbl
        /\ stripeCustomers' = c.custs
        /\ stripeSubscriptions' = sr.subs
        /\ last' = base @@
              [code |-> 200,
               calls |-> storeCalls \cup c.calls \cup sr.calls \cup {"users.update"},
               row |-> e, tier |-> c.tier, subscription |-> subscription,
               storeOk |-> storeOk,
               body |-> [subscription_id |-> subscription.id,
                         status |-> subscription.status,
                         subscription_created |-> sr.created,
                         collection_method |-> subscription.collection_method,
                         current_period_end |->
                             ToISOString(subscription.current_period_end),
                         customer_id |-> c.id]]

CreateCheckoutSession ==
    /\ last = Idle
    /\ \E key \in ApiKeys, configured \in BOOLEAN,
          email \in ReqEmails \cup {NoEmail}, planTier \in PlanInputs,
          findOk \in BOOLEAN, createOk \in BOOLEAN, fail \in Faults,
          storeOk \in BOOLEAN :
      LET auth == AuthenticateApiKey(key, configured)
          matches == SelectILike(users, email)
          base == [op |-> "create-checkout-session", now |-> now,
                   email |-> email, key |-> key, configured |-> configured]
          quiet == planTier = Undefined /\ fail = "none" /\ storeOk
      IN
      IF auth # 0 THEN
          /\ quiet /\ findOk /\ createOk /\ email = NoEmail
          /\ CheckoutEnds(base, auth, {}, users, stripeCustomers)
      ELSE IF email = NoEmail THEN
          /\ quiet /\ findOk /\ createOk
          /\ CheckoutEnds(base, 400, {}, users, stripeCustomers)
      ELSE IF ~findOk THEN
          /\ quiet /\ createOk
          /\ CheckoutEnds(base, 500, {"users.select"}, users, stripeCustomers)
      ELSE IF matches = {} THEN
          IF ~createOk THEN
              /\ quiet
              /\ CheckoutEnds(base, 500, {"users.select", "users.insert"},
                              users, stripeCustomers)
          ELSE
              CheckoutProceeds(base, email, InsertUser(users, email, now),
                               {"users.select", "users.insert"},
                               planTier, fail, storeOk)
      ELSE
          \* a tier other than the default is drawn for first requests only
          /\ createOk /\ planTier = Undefined
          /\ \E e \in matches :
                CheckoutProceeds(base, e, users, {"users.select"},
                                 planTier, fail, storeOk)
    /\ UNCHANGED <<now, nzLog, usersA, usersB, seenA, seenB, outbox, faults,
                   inflight, limiter, rlLog>>

----------------------------------------------------------------------------
(* The serverless handler api/create-checkout-session.js *)

Methods == {"GET", "POST"}

HandlerFaults ==
    {"none", "customers.list", "customers.create", "checkout.sessions.create"}

\* export default async function handler(req, res): the headers of the
\* request are not read
Handler ==
    /\ last = Idle
    /\ \E method \in Methods, key \in ApiKeys, configured \in BOOLEAN,
          email \in ReqEmails \cup {NoEmail}, planTier \in PlanInputs,
          priceSet \in BOOLEAN, fail \in HandlerFaults :
      LET base == [op |-> "handler", now |-> now, email |-> email,
                   key |-> key, configured |-> configured]
          found == CustomersList(stripeCustomers, email)
          quiet == priceSet /\ fail = "none"
          Ends(code, calls, custs) ==
              /\ stripeCustomers' = custs
              /\ last' = base @@ [code |-> code, calls |-> calls]
      IN
      IF method # "POST" THEN
          /\ quiet /\ email = NoEmail /\ planTier = Undefined
          /\ Ends(405, {}, stripeCustomers)
      ELSE IF email = NoEmail THEN
          /\ quiet /\ planTier = Undefined
          /\ Ends(400, {}, stripeCustomers)
      ELSE IF planTier # Undefined THEN
          /\ quiet
          /\ Ends(400, {}, stripeCustomers)
      ELSE IF ~priceSet THEN
          /\ fail = "none"
          /\ Ends(500, {}, stripeCustomers)
      ELSE IF fail = "customers.list" THEN
          Ends(500, {"customers.list"}, stripeCustomers)
      ELSE IF found # {} THEN
          /\ fail # "customers.create"
          /\ Ends(IF fail = "none" THEN 200 ELSE 500,
                  {"customers.list", "checkout.sessions.create"},
                  stripeCustomers)
      ELSE IF fail = "customers.create" THEN
          Ends(500, {"customers.list", "customers.create"}, stripeCustomers)
      ELSE
          Ends(IF fail = "none" THEN 200 ELSE 500,
               {"customers.list", "customers.create",
                "checkout.sessions.create"},
               Append(stripeCustomers, email))
    /\ UNCHANGED <<users, now, nzLog, usersA, usersB, seenA, seenB, outbox,
                   faults, stripeSubscriptions, inflight, limiter, rlLog>>

----------------------------------------------------------------------------
(* Checkout requests, access checks and the processor's own progress *)

\* What the processor may make of a subscription between two requests: the
\* trial ends and an invoice is sent, the invoice falls overdue, the invoice
\* is paid, the subscription is canceled
LifecycleSteps(sub) ==
    (IF sub.status = "trialing"
     THEN {[sub EXCEPT !.status = "active", !.invoice = "open"]} ELSE {})
    \cup (IF sub.status = "active" /\ sub.invoice = "open"
          THEN {[sub EXCEPT !.status = "past_due"]} ELSE {})
    \cup (IF sub.status \in {"active", "past_due"} /\ sub.invoice = "open"
          THEN {[sub EXCEPT !.status = "active", !.invoice = "paid"]} ELSE {})
    \cup (IF sub.status # "canceled"
          THEN {[sub EXCEPT !.status = "canceled", !.invoice = "none"]}
          ELSE {})

SubscriptionLifecycle ==
    /\ last = Idle
    /\ \E i \in DOMAIN stripeSubscriptions :
          \E sub \in LifecycleSteps(stripeSubscriptions[i]) :
              stripeSubscriptions' = [stripeSubscriptions EXCEPT ![i] = sub]
    /\ UNCHANGED <<users, now, last, nzLog, usersA, usersB, seenA, seenB,
                   outbox, faults, stripeCustomers, inflight, limiter, rlLog>>

NextCheckout ==
    \/ CreateCheckoutSession
    \/ Handler
    \/ CheckAccess
    \/ SubscriptionLifecycle
    \/ Settle

SpecCheckout == Init /\ [][NextCheckout]_vars

----------------------------------------------------------------------------
(* The admin route POST /users *)

Plans == {Undefined, "Pro"}
UpsertStatuses == {Undefined, "active"}

\* customFields of the request body: absent (the default {}) or a column
CustomFieldSets == {<<>>, [subscription_id |-> Null]}

\* { email, ...customFields, updated_at }, then plan and status when truthy
UpsertData(email, plan, status, customFields, t) ==
    (IF plan # Undefined THEN [plan |-> plan] ELSE <<>>)
    @@ (IF status # Undefined THEN [status |-> status] ELSE <<>>)
    @@ [updated_at |-> Iso(t)]
    @@ customFields
    @@ [email |-> email]

\* .upsert(data, { onConflict: 'email' }): the row whose email equals
\* data.email takes the given columns, otherwise a row is inserted
Upsert(tbl, data, t) ==
    [e \in DOMAIN tbl \cup {data.email} |->
        IF e \in DOMAIN tbl THEN
            IF e = data.email THEN Patch(tbl[e], data) ELSE tbl[e]
        ELSE Patch(NewRow(data.email, t), data)]

UpsertUser ==
    /\ last = Idle
    /\ \E key \in ApiKeys, configured \in BOOLEAN,
          email \in ReqEmails \cup {NoEmail}, plan \in Plans,
          status \in UpsertStatuses, customFields \in CustomFieldSets,
          storeOk \in BOOLEAN :
      LET auth == AuthenticateApiKey(key, configured)
          data == UpsertData(email, plan, status, customFields, now)
          base == [op |-> "upsert-user", now |-> now, email |-> email,
                   key |-> key, configured |-> configured]
          quiet == /\ plan = Undefined /\ status = Undefined
                   /\ customFields = <<>> /\ storeOk
      IN
      IF auth # 0 THEN
          /\ quiet /\ email = NoEmail
          /\ last' = base @@ [code |-> auth]
          /\ users' = users
      ELSE IF email = NoEmail THEN
          /\ quiet
          /\ last' = base @@ [code |-> 400]
          /\ users' = users
      ELSE IF ~storeOk THEN
          /\ plan = Undefined /\ status = Undefined /\ customFields = <<>>
          /\ last' = base @@ [code |-> 500]
          /\ users' = users
      ELSE
          /\ users' = Upsert(users, data, now)
          /\ last' = base @@ [code |-> 200, data |-> data,
                              user |-> Upsert(users, data, now)[email]]
    /\ UNCHANGED <<now, nzLog, usersA, usersB, seenA, seenB, outbox, faults,
                   stripeCustomers, stripeSubscriptions, inflight, limiter, rlLog>>

\* The routes that create user records
NextUsers ==
    \/ CheckAccess
    \/ CreateCheckoutSession
    \/ UpsertUser
    \/ Settle

SpecUsers == Init /\ [][NextUsers]_vars

\* The admin route beside the webhook
NextFrame ==
    \/ UpsertUser
    \/ Webhook
    \/ Settle

SpecFrame == Init /\ [][NextFrame]_vars

----------------------------------------------------------------------------
(* Two webhook deliveries handled at once.  Express starts a handler for
   each request; a handler gives up control at every await, so the steps of
   two handlers interleave between their processor reads and their write. *)

Deliveries == {1, 2}

RaceEvents == OrderEvents \cup {ev \in Events : ~ev.up.custOk}

RaceTable == [e \in {EmailLower} |-> AwaitingRow(e, <<1>>)]

Waiting == [phase |-> "waiting"]

InitRace ==
    /\ users = RaceTable
    /\ now = 0
    /\ last = Idle
    /\ nzLog = <<>>
    /\ usersA = <<>>
    /\ usersB = <<>>
    /\ seenA = {}
    /\ seenB = {}
    /\ outbox = "idle"
    /\ faults = 0
    /\ stripeCustomers = <<>>
    /\ stripeSubscriptions = <<>>
    /\ inflight = [d \in Deliveries |-> Waiting]
    /\ limiter = NoLimiter
    /\ rlLog = <<>>

\* The handler up to the call of updateUserStatus: the event is verified,
\* the processor is read and the updates are computed, new Date() included
RaceReceive(d) ==
    /\ inflight[d].phase = "waiting"
    /\ \E ev \in RaceEvents :
          LET h == Dispatch(ev, now)
          IN inflight' =
                [inflight EXCEPT ![d] =
                    [phase |-> IF h.writes = {} THEN "done" ELSE "writing",
                     event |-> ev, now |-> now, writes |-> h.writes,
                     issued |-> 0, storeOk |-> TRUE,
                     code |-> IF h.threw THEN 500 ELSE 200]]
    /\ UNCHANGED <<users, now, last, nzLog, usersA, usersB, seenA, seenB,
                   outbox, faults, stripeCustomers, stripeSubscriptions,
                   limiter, rlLog>>

\* The table after the store ran the UPDATE statement of a write
StoreCommit_WholeRow(tbl, email, updates, storeOk) ==
    IF ~storeOk THEN tbl
    ELSE [e \in DOMAIN tbl |->
            IF ILike(email, e) THEN Patch(NewRow(e, 0), updates) ELSE tbl[e]]

StoreCommit(tbl, email, updates, storeOk) ==
    UpdateUserStatus(tbl, email, updates, storeOk)

\* updateUserStatus: the store runs the one UPDATE statement, or fails;
\* either way the handler answers 200
RaceWrite(d) ==
    /\ inflight[d].phase = "writing"
    /\ \E storeOk \in BOOLEAN, w \in inflight[d].writes :
          /\ users' = StoreCommit(users, w.email, w.updates, storeOk)
          /\ inflight' = [inflight EXCEPT ![d].phase = "done",
                                          ![d].issued = @ + 1,
                                          ![d].storeOk = storeOk]
    /\ UNCHANGED <<now, last, nzLog, usersA, usersB, seenA, seenB,
                   outbox, faults, stripeCustomers, stripeSubscriptions,
                   limiter, rlLog>>

RaceTick ==
    /\ now < MaxNow * MsPerSec
    /\ now' = now + MsPerSec
    /\ UNCHANGED <<users, last, nzLog, usersA, usersB, seenA, seenB, outbox,
                   faults, stripeCustomers, stripeSubscriptions, inflight, limiter, rlLog>>

NextRace ==
    \/ \E d \in Deliveries : RaceReceive(d)
    \/ \E d \in Deliveries : RaceWrite(d)
    \/ RaceTick

SpecRace == InitRace /\ [][NextRace]_vars

----------------------------------------------------------------------------
(* Two POST /create-checkout-session requests for one e-mail handled at
   once: the route gives up control at each await, so the store and the
   processor calls of the two requests interleave. *)

Requests == {1, 2}

\* A request that passed authenticateApiKey and has not yet read the store
Arrived ==
    [pc |-> "select", user |-> NoEmail, customer |-> Null, subscription |-> 0,
     created |-> FALSE, code |-> 0]

InitRush ==
    /\ users \in {<<>>, InsertUser(<<>>, EmailLower, 0)}
    /\ now = 0
    /\ last = Idle
    /\ nzLog = <<>>
    /\ usersA = <<>>
    /\ usersB = <<>>
    /\ seenA = {}
    /\ seenB = {}
    /\ outbox = "idle"
    /\ faults = 0
    /\ stripeCustomers = <<>>
    /\ stripeSubscriptions = <<>>
    /\ inflight = [r \in Requests |-> Arrived]
    /\ limiter = NoLimiter
    /\ rlLog = <<>>

RushKeeps ==
    <<now, last, nzLog, usersA, usersB, seenA, seenB, outbox, faults,
      limiter, rlLog>>

\* await supabase.from('users').select('*').ilike('email', email).limit(1)
RushSelect(r) ==
    /\ inflight[r].pc = "select"
    /\ LET matches == SelectILike(users, EmailLower)
       IN IF matches = {} THEN
              inflight' = [inflight EXCEPT ![r].pc = "insert"]
          ELSE
              \E e \in matches :
                 inflight' =
                    [inflight EXCEPT
                        ![r].user = e,
                        ![r].customer = users[e].stripe_customer_id,
                        ![r].pc = IF users[e].stripe_customer_id # Null
                                  THEN "retrieve" ELSE "list"]
    /\ UNCHANGED <<users, stripeCustomers, stripeSubscriptions>>
    /\ UNCHANGED RushKeeps

\* await supabase.from('users').insert([{ email }]): the unique constraint
\* rejects a second row with the e-mail, and the route answers 500
RushInsert(r) ==
    /\ inflight[r].pc = "insert"
    /\ IF EmailLower \in DOMAIN users THEN
          /\ inflight' = [inflight EXCEPT ![r].pc = "done", ![r].code = 500]
          /\ users' = users
       ELSE
          /\ users' = InsertUser(users, EmailLower, now)
          /\ inflight' = [inflight EXCEPT ![r].pc = "list",
                                          ![r].user = EmailLower]
    /\ UNCHANGED <<stripeCustomers, stripeSubscriptions>>
    /\ UNCHANGED RushKeeps

\* await stripe.customers.retrieve(user.stripe_customer_id)
RushRetrieve(r) ==
    /\ inflight[r].pc = "retrieve"
    /\ inflight' = [inflight EXCEPT ![r].pc = "subscriptions"]
    /\ UNCHANGED <<users, stripeCustomers, stripeSubscriptions>>
    /\ UNCHANGED RushKeeps

\* await stripe.customers.list({ email, limit: 1 })
RushList(r) ==
    /\ inflight[r].pc = "list"
    /\ LET found == CustomersList(stripeCustomers, EmailLower)
       IN inflight' =
             IF found = {} THEN [inflight EXCEPT ![r].pc = "create"]
             ELSE [inflight EXCEPT ![r].pc = "subscriptions",
                                   ![r].customer = CustomerIdOf(Latest(found))]
    /\ UNCHANGED <<users, stripeCustomers, stripeSubscriptions>>
    /\ UNCHANGED RushKeeps

\* await stripe.customers.create({ email, ... })
RushCreate(r) ==
    /\ inflight[r].pc = "create"
    /\ stripeCustomers' = Append(stripeCustomers, EmailLower)
    /\ inflight' =
          [inflight EXCEPT ![r].pc = "subscriptions",
                           ![r].customer = CustomerIdOf(Len(stripeCustomers) + 1)]
    /\ UNCHANGED <<users, stripeSubscriptions>>
    /\ UNCHANGED RushKeeps

\* await stripe.subscriptions.list({ customer, status: 'all', limit: 10 })
RushSubscriptions(r) ==
    /\ inflight[r].pc = "subscriptions"
    /\ LET active == ActiveSubscription(stripeSubscriptions, inflight[r].customer)
       IN inflight' =
             IF active = 0 THEN [inflight EXCEPT ![r].pc = "subscribe"]
             ELSE [inflight EXCEPT ![r].pc = "update",
                                   ![r].subscription = active]
    /\ UNCHANGED <<users, stripeCustomers, stripeSubscriptions>>
    /\ UNCHANGED RushKeeps

\* await stripe.subscriptions.create({ customer, trial_period_days: 1, ... })
RushSubscribe(r) ==
    /\ inflight[r].pc = "subscribe"
    /\ stripeSubscriptions' =
          Append(stripeSubscriptions,
                 NewSubscription(Len(stripeSubscriptions) + 1,
                                 inflight[r].customer, now))
    /\ inflight' = [inflight EXCEPT ![r].pc = "update",
                                    ![r].subscription = Len(stripeSubscriptions) + 1,
                                    ![r].created = TRUE]
    /\ UNCHANGED <<users, stripeCustomers>>
    /\ UNCHANGED RushKeeps

\* await supabase.from('users').update(updateFields).eq('id', user.id),
\* then res.json(...)
RushUpdate(r) ==
    /\ inflight[r].pc = "update"
    /\ LET e == inflight[r].user
           updateFields ==
               UpdateFields(inflight[r].customer,
                            stripeSubscriptions[inflight[r].subscription],
                            NormalizePlanOption(Undefined), now)
       IN users' = [users EXCEPT ![e] = Patch(users[e], updateFields)]
    /\ inflight' = [inflight EXCEPT ![r].pc = "done", ![r].code = 200]
    /\ UNCHANGED <<stripeCustomers, stripeSubscriptions>>
    /\ UNCHANGED RushKeeps

RushTick ==
    /\ now < MaxNow * MsPerSec
    /\ now' = now + MsPerSec
    /\ UNCHANGED <<users, last, nzLog, usersA, usersB, seenA, seenB, outbox,
                   faults, stripeCustomers, stripeSubscriptions, inflight, limiter, rlLog>>

NextRush ==
    \/ \E r \in Requests : RushSelect(r)
    \/ \E r \in Requests : RushInsert(r)
    \/ \E r \in Requests : RushRetrieve(r)
    \/ \E r \in Requests : RushList(r)
    \/ \E r \in Requests : RushCreate(r)
    \/ \E r \in Requests : RushSubscriptions(r)
    \/ \E r \in Requests : RushSubscribe(r)
    \/ \E r \in Requests : RushUpdate(r)
    \/ RushTick

SpecRush == InitRush /\ [][NextRush]_vars

----------------------------------------------------------------------------
(* A send_invoice subscription none of whose invoices is paid *)

\* The subscription-updated events the processor sends for it
UnpaidEvents ==
    {ev \in SubscriptionEvents("customer.subscription.updated", StripeStatuses) :
        /\ ev.obj.collection_method = "send_invoice"
        /\ ev.up.invStatus # "paid"}

UnpaidUpdate ==
    /\ last = Idle
    /\ \E ev \in UnpaidEvents, storeOk \in BOOLEAN :
          WebhookStep("valid", TRUE, ev, storeOk, now, FALSE)
    /\ UNCHANGED <<now, nzLog, usersA, usersB, seenA, seenB, outbox, faults,
                   stripeCustomers, stripeSubscriptions, inflight, limiter, rlLog>>

NextUnpaid ==
    \/ CreateCheckoutSession
    \/ UnpaidUpdate
    \/ CheckAccess
    \/ Settle

SpecUnpaid == Init /\ [][NextUnpaid]_vars

----------------------------------------------------------------------------
(* Webhook writes for customers whose addresses hold '_' or '%' *)

PatternCustomers == {"cus_1", "cus_2", "cus_3"}

StoredEmails == {EmailLower, EmailUnderscore, EmailPercent}

\* The events of OrderEvents, for each of the customers
PatternEvents ==
    {[ev EXCEPT !.obj.customer = c] :
        ev \in OrderEvents, c \in PatternCustomers}

\* Records that check-access created for some of the addresses
InitPattern ==
    /\ \E stored \in SUBSET StoredEmails :
          users = [e \in stored |-> NewRow(e, 0)]
    /\ now = 0
    /\ last = Idle
    /\ nzLog = <<>>
    /\ usersA = <<>>
    /\ usersB = <<>>
    /\ seenA = {}
    /\ seenB = {}
    /\ outbox = "idle"
    /\ faults = 0
    /\ stripeCustomers = <<>>
    /\ stripeSubscriptions = <<>>
    /\ inflight = <<>>
    /\ limiter = NoLimiter
    /\ rlLog = <<>>

PatternWebhook ==
    /\ last = Idle
    /\ \E ev \in PatternEvents, storeOk \in BOOLEAN :
          WebhookStep("valid", TRUE, ev, storeOk, now, FALSE)
    /\ UNCHANGED <<now, nzLog, usersA, usersB, seenA, seenB, outbox, faults,
                   stripeCustomers, stripeSubscriptions, inflight, limiter, rlLog>>

NextPattern ==
    \/ PatternWebhook
    \/ Settle

SpecPattern == InitPattern /\ [][NextPattern]_vars

----------------------------------------------------------------------------
(* The rate limiter: rateLimitByApiKey({ windowMs, max }) *)

MaxWindow == 2       \* longest window, in clock steps of half a second
MaxAllowed == 1      \* largest max of the limiter
MaxRequests == 4     \* requests sent through the limiter

HalfSec == MsPerSec \div 2

WindowSizes == {w * HalfSec : w \in 0..MaxWindow}

\* Math.ceil(ms / 1000) for ms >= 0
CeilSeconds(ms) == (ms + MsPerSec - 1) \div MsPerSec

\* The middleware for one request with the key at time t: the answer (0 when
\* next() is called, else 429 with retryAfter) and the limits map afterwards
RateLimitByApiKey_NeverResets(lim, key, t) ==
    IF key = "none" THEN
        [code |-> 0, retryAfter |-> 0, counted |-> FALSE, limits |-> lim.limits]
    ELSE
        LET fresh == key \notin DOMAIN lim.limits
            start == IF fresh THEN [count |-> 0, resetTime |-> t + lim.windowMs]
                     ELSE lim.limits[key]
            info == [start EXCEPT !.count = @ + 1]
            after == [k \in DOMAIN lim.limits \cup {key} |->
                         IF k = key THEN info ELSE lim.limits[k]]
        IN IF info.count > lim.max
           THEN [code |-> 429, retryAfter |-> CeilSeconds(info.resetTime - t),
                 counted |-> TRUE, limits |-> after]
           ELSE [code |-> 0, retryAfter |-> 0, counted |-> TRUE,
                 limits |-> after]

RateLimitByApiKey(lim, key, t) ==
    IF key = "none" THEN
        [code |-> 0, retryAfter |-> 0, counted |-> FALSE, limits |-> lim.limits]
    ELSE
        LET fresh == \/ key \notin DOMAIN lim.limits
                     \/ lim.limits[key].resetTime <= t
            start == IF fresh THEN [count |-> 0, resetTime |-> t + lim.windowMs]
                     ELSE lim.limits[key]
            info == [start EXCEPT !.count = @ + 1]
            after == [k \in DOMAIN lim.limits \cup {key} |->
                         IF k = key THEN info ELSE lim.limits[k]]
        IN IF info.count > lim.max
           THEN [code |-> 429, retryAfter |-> CeilSeconds(info.resetTime - t),
                 counted |-> TRUE, limits |-> after]
           ELSE [code |-> 0, retryAfter |-> 0, counted |-> TRUE,
                 limits |-> after]

\* A limiter is installed with some windowMs and max; no request yet
InitRate ==
    /\ users = <<>>
    /\ now = 0
    /\ last = Idle
    /\ nzLog = <<>>
    /\ usersA = <<>>
    /\ usersB = <<>>
    /\ seenA = {}
    /\ seenB = {}
    /\ outbox = "idle"
    /\ faults = 0
    /\ stripeCustomers = <<>>
    /\ stripeSubscriptions = <<>>
    /\ inflight = <<>>
    /\ \E w \in WindowSizes, m \in 0..MaxAllowed :
          limiter = [windowMs |-> w, max |-> m, limits |-> <<>>]
    /\ rlLog = <<>>

\* A request reaches the middleware
RateRequest ==
    /\ Len(rlLog) < MaxRequests
    /\ \E key \in ApiKeys :
          LET out == RateLimitByApiKey(limiter, key, now)
          IN /\ limiter' = [limiter EXCEPT !.limits = out.limits]
             /\ rlLog' = Append(rlLog,
                   [key |-> key, now |-> now, code |-> out.code,
                    retryAfter |-> out.retryAfter,
                    info |-> IF out.counted THEN out.limits[key]
                             ELSE [count |-> 0, resetTime |-> 0]])
    /\ UNCHANGED <<users, now, last, nzLog, usersA, usersB, seenA, seenB,
                   outbox, faults, stripeCustomers, stripeSubscriptions,
                   inflight>>

\* Date.now() advances
RateTick ==
    /\ now < MaxNow * MsPerSec
    /\ now' = now + HalfSec
    /\ UNCHANGED <<users, last, nzLog, usersA, usersB, seenA, seenB, outbox,
                   faults, stripeCustomers, stripeSubscriptions, inflight,
                   limiter, rlLog>>

NextRate ==
    \/ RateRequest
    \/ RateTick

SpecRate == InitRate /\ [][NextRate]_vars

----------------------------------------------------------------------------
(* The Airtable backend: the same service with base('Users') as the store.
   A record has the fields Email, Status, Plan, StripeCustomerId,
   SubscriptionId and CurrentPeriodEnd, a date without a time. *)

SecPerDay == 24 * 60 * 60

\* formatDateForAirtable: new Date(s * 1000).toISOString().split('T')[0],
\* read back by new Date(...) as the midnight that starts the day
FormatDateForAirtable(seconds) ==
    IF seconds = <<>> \/ seconds = <<0>> THEN NoDate
    ELSE Iso((seconds[1] \div SecPerDay) * SecPerDay * MsPerSec)

\* statusMap[stripeStatus] || 'none'
MapStripeStatusToAirtable(stripeStatus) ==
    LET statusMap ==
            [k \in {"active", "trialing", "past_due", "unpaid", "canceled",
                    "cancelled", "incomplete", "incomplete_expired"} |->
                CASE k = "active" -> "active"
                  [] k \in {"trialing", "past_due", "unpaid"} -> "trialing"
                  [] k \in {"canceled", "cancelled"} -> "canceled"
                  [] k = "incomplete" -> "pending"
                  [] k = "incomplete_expired" -> "none"]
        v == JsLookup(statusMap, stripeStatus)
    IN IF v = Undefined THEN "none" ELSE v

\* base('Users').create([{ fields: { Email: email } }])
AirtableRecord(email) ==
    [Email |-> email, Status |-> Null, Plan |-> Null, StripeCustomerId |-> Null,
     SubscriptionId |-> Null, CurrentPeriodEnd |-> NoDate]

\* filterByFormula: LOWER({Email}) = LOWER('...'), maxRecords: 1
ByEmail(tbl, email) == {e \in DOMAIN tbl : ToLower(e) = ToLower(email)}

\* GET /check-access of the Airtable backend
AirtableCheckAccess ==
    /\ last = Idle
    /\ \E key \in ApiKeys, configured \in BOOLEAN,
          email \in ReqEmails \cup {NoEmail}, findOk \in BOOLEAN,
          createOk \in BOOLEAN :
      LET auth == AuthenticateApiKey(key, configured)
          matches == ByEmail(users, email)
          base == [op |-> "airtable/check-access", now |-> now, email |-> email]
          answer(user, created) ==
              base @@
              [code |-> 200, found |-> TRUE, user |-> user,
               body |-> [has_access |->
                            IF user.Status # "active" THEN JsFalse
                            ELSE IF user.CurrentPeriodEnd = NoDate THEN Null
                            ELSE JsBool(ParseDate(user.CurrentPeriodEnd) > now),
                         plan |-> user.Plan, status |-> user.Status,
                         current_period_end |-> user.CurrentPeriodEnd,
                         user_created |-> created]]
      IN
      /\ IF auth # 0 THEN
            /\ findOk /\ createOk /\ email = NoEmail
            /\ last' = base @@ [code |-> auth]
            /\ users' = users
         ELSE IF email = NoEmail THEN
            /\ findOk /\ createOk
            /\ last' = base @@ [code |-> 400]
            /\ users' = users
         ELSE IF ~findOk THEN
            /\ createOk
            /\ last' = base @@ [code |-> 500]
            /\ users' = users
         ELSE IF matches = {} THEN
            IF createOk THEN
               /\ users' = [e \in DOMAIN users \cup {email} |->
                              IF e = email THEN AirtableRecord(email)
                              ELSE users[e]]
               /\ last' = answer(AirtableRecord(email), TRUE)
            ELSE
               /\ users' = users
               /\ last' = base @@ [code |-> 200, found |-> FALSE,
                                   body |-> NotCreatedBody]
         ELSE
            /\ createOk
            /\ \E e \in matches : last' = answer(users[e], FALSE)
            /\ users' = users
    /\ UNCHANGED <<now, nzLog, usersA, usersB, seenA, seenB, outbox, faults,
                   stripeCustomers, stripeSubscriptions, inflight, limiter,
                   rlLog>>

\* POST /create-checkout-session of the Airtable backend, called with the
\* right key: the record, the customer and the subscription are found or
\* created and the record is updated; a failing update is only logged
AirtableCheckout ==
    /\ last = Idle
    /\ \E email \in ReqEmails, updateOk \in BOOLEAN :
      LET matches == ByEmail(users, email)
          tbl == IF matches = {}
                 THEN [e \in DOMAIN users \cup {email} |->
                         IF e = email THEN AirtableRecord(email) ELSE users[e]]
                 ELSE users
      IN \E e \in ByEmail(tbl, email) :
          LET c == ResolveCustomer(stripeCustomers,
                       [stripe_customer_id |-> tbl[e].StripeCustomerId],
                       email, "none")
              active == ActiveSubscription(stripeSubscriptions, c.id)
              n == IF active # 0 THEN active ELSE Len(stripeSubscriptions) + 1
              subs == IF active # 0 THEN stripeSubscriptions
                      ELSE Append(stripeSubscriptions,
                             [id |-> SubscriptionIdOf(n), customer |-> c.id,
                              status |-> "trialing",
                              collection_method |-> "send_invoice",
                              invoice |-> "none",
                              current_period_end |->
                                  <<(now \div MsPerSec) + SecPerDay>>])
              currentPeriodEnd ==
                  FormatDateForAirtable(subs[n].current_period_end)
              updateFields ==
                  [StripeCustomerId |-> c.id, SubscriptionId |-> subs[n].id,
                   Status |-> MapStripeStatusToAirtable(subs[n].status),
                   Plan |-> NormalizePlanOption(Undefined)]
                  @@ (IF currentPeriodEnd # NoDate
                      THEN [CurrentPeriodEnd |-> currentPeriodEnd] ELSE <<>>)
          IN /\ Len(subs) <= MaxSubs
             /\ stripeCustomers' = c.custs
             /\ stripeSubscriptions' = subs
             /\ users' = IF updateOk
                         THEN [tbl EXCEPT ![e] = Patch(tbl[e], updateFields)]
                         ELSE tbl
             /\ last' = [op |-> "airtable/create-checkout-session",
                         now |-> now, email |-> email, code |-> 200,
                         updateOk |-> updateOk]
    /\ UNCHANGED <<now, nzLog, usersA, usersB, seenA, seenB, outbox, faults,
                   inflight, limiter, rlLog>>

\* handleSubscriptionUpdate: the record is looked up by StripeCustomerId,
\* filterByFormula: {StripeCustomerId} = '...', maxRecords: 1
AirtableSubscriptionUpdate(tbl, subscription) ==
    LET records ==
            {e \in DOMAIN tbl : tbl[e].StripeCustomerId = subscription.customer}
    IN IF records = {} THEN {tbl}
       ELSE {[tbl EXCEPT ![e] =
                Patch(tbl[e],
                      [Status |-> MapStripeStatusToAirtable(subscription.status),
                       CurrentPeriodEnd |->
                          FormatDateForAirtable(subscription.current_period_end)])] :
             e \in records}

\* handleCheckoutComplete: the record is looked up by the customer's e-mail
AirtableCheckoutComplete(tbl, email, subscription) ==
    LET records == ByEmail(tbl, email)
    IN IF records = {} THEN {tbl}
       ELSE {[tbl EXCEPT ![e] =
                Patch(tbl[e],
                      [Status |-> "active", SubscriptionId |-> subscription.id,
                       CurrentPeriodEnd |->
                          FormatDateForAirtable(subscription.current_period_end)])] :
             e \in records}

\* A customer completes a Checkout Session of the processor: the customer
\* has an active subscription, and the signed checkout.session.completed is
\* delivered and handled at once
AirtableSessionCompleted ==
    /\ last = Idle
    /\ Len(stripeSubscriptions) < MaxSubs
    /\ \E email \in ReqEmails, d \in 1..MaxPeriodEnd :
          LET c == ResolveCustomer(stripeCustomers,
                                   [stripe_customer_id |-> Null], email, "none")
              subscription ==
                  [id |-> SubscriptionIdOf(Len(stripeSubscriptions) + 1),
                   customer |-> c.id, status |-> "active",
                   collection_method |-> "charge_automatically",
                   invoice |-> "paid",
                   current_period_end |-> <<d * SecPerDay>>]
          IN /\ stripeCustomers' = c.custs
             /\ stripeSubscriptions' = Append(stripeSubscriptions, subscription)
             /\ users' \in AirtableCheckoutComplete(users, email, subscription)
             /\ last' = [op |-> "airtable/webhook", now |-> now, code |-> 200,
                         type |-> "checkout.session.completed",
                         subscription |-> subscription]
    /\ UNCHANGED <<now, nzLog, usersA, usersB, seenA, seenB, outbox, faults,
                   inflight, limiter, rlLog>>

\* The processor changes the status of a subscription; the signed
\* customer.subscription.updated is delivered and handled at once
AirtableSubscriptionChanged ==
    /\ last = Idle
    /\ \E i \in DOMAIN stripeSubscriptions, status \in StripeStatuses,
          d \in 1..MaxPeriodEnd :
          LET subscription ==
                  [stripeSubscriptions[i] EXCEPT
                      !.status = status,
                      !.current_period_end = <<d * SecPerDay>>]
          IN /\ status # stripeSubscriptions[i].status
             /\ stripeSubscriptions[i].status # "canceled"
             /\ stripeSubscriptions' =
                   [stripeSubscriptions EXCEPT ![i] = subscription]
             /\ users' \in AirtableSubscriptionUpdate(users, subscription)
             /\ last' = [op |-> "airtable/webhook", now |-> now, code |-> 200,
                         type |-> "customer.subscription.updated",
                         subscription |-> subscription]
    /\ UNCHANGED <<now, nzLog, usersA, usersB, seenA, seenB, outbox, faults,
                   stripeCustomers, inflight, limiter, rlLog>>

NextAirtable ==
    \/ AirtableCheckAccess
    \/ AirtableCheckout
    \/ AirtableSessionCompleted
    \/ AirtableSubscriptionChanged
    \/ Settle

SpecAirtable == Init /\ [][NextAirtable]_vars

----------------------------------------------------------------------------
(* Claims *)

\* The rows a webhook write addressed to the customer's e-mail reaches
RowsOf(customer) == SelectILike(users, CustomerEmail(customer))

Answered == last.op = "check-access" /\ last.code = 200

\* C1: check-access answers has_access = true exactly when the record's
\* status is active or trialing and its current_period_end is present and
\* strictly later than the time of the request; no request that finds no
\* record answers true.
C1_AccessGrant ==
    Answered =>
        IF last.found
        THEN (last.body.has_access = JsTrue)
                <=> /\ last.user.status \in {"active", "trialing"}
                    /\ last.user.current_period_end # NoDate
                    /\ ParseDate(last.user.current_period_end) > last.now
        ELSE last.body.has_access # JsTrue

C1_Witness ==
    /\ Answered /\ last.found
    /\ last.body.has_access = JsTrue
    /\ last.user.status = "trialing"

\* C2: for a record that is active or trialing but has no current_period_end,
\* or one that has elapsed, has_access is the boolean false.
C2_DeniedIsFalse ==
    (/\ Answered /\ last.found
     /\ last.user.status \in {"active", "trialing"}
     /\ \/ last.user.current_period_end = NoDate
        \/ ParseDate(last.user.current_period_end) <= last.now)
    => last.body.has_access = JsFalse

SubscriptionUpdated ==
    /\ last.op = "webhook"
    /\ last.handler = "handleSubscriptionUpdate"
    /\ last.event.type = "customer.subscription.updated"

UnpaidDeferred ==
    /\ SubscriptionUpdated
    /\ last.event.obj.status = "active"
    /\ last.event.obj.collection_method = "send_invoice"
    /\ last.event.obj.latest_invoice # Null
    /\ last.event.up.invStatus # "paid"

PaidDelivered ==
    /\ last.op = "webhook"
    /\ last.event.type = "invoice.payment_succeeded"
    /\ last.event.obj.subscription # Null
    /\ last.applied

\* C4: once the write of an invoice.payment_succeeded event that carries a
\* subscription is stored, the record's status is active whatever it was
\* before, awaiting_payment included.
C4_PaidWins ==
    PaidDelivered =>
        \A e \in RowsOf(last.event.obj.customer) : users[e].status = "active"

C4_Witness ==
    /\ PaidDelivered
    /\ last.before = {"awaiting_payment"}
    /\ \E e \in RowsOf(last.event.obj.customer) : users[e].status = "active"

\* The step applies again an invoice-paid or subscription-updated event
\* whose previous delivery was applied
AppliedAgain ==
    /\ last.op = "webhook" /\ last.applied
    /\ last'.op = "webhook" /\ last'.redelivery /\ last'.applied
    /\ last'.event.type \in {"invoice.payment_succeeded",
                             "customer.subscription.updated"}

\* C5 as stated: applying the same event a second time leaves every record
\* identical in every field, updated_at included.
C5_Idempotent == [][AppliedAgain => users' = users]_vars

SameButStamp(r, q) == r = [q EXCEPT !.updated_at = r.updated_at]

\* C5 amended: applying the same event a second time, the processor giving
\* the same answers to the handler's retrievals as the first time, leaves
\* every record identical in every field other than updated_at; a
\* subscription-updated event leaves updated_at identical as well, an
\* invoice-paid event sets it to the time of the second application.
C5_IdempotentButStamp ==
    [][(AppliedAgain /\ last'.event.up = last.event.up) =>
        /\ DOMAIN users' = DOMAIN users
        /\ \A e \in DOMAIN users : SameButStamp(users'[e], users[e])
        /\ last'.event.type = "customer.subscription.updated" => users' = users
        /\ last'.event.type = "invoice.payment_succeeded" =>
              \A e \in RowsOf(last'.event.obj.customer) :
                  users'[e].updated_at = Iso(last'.now)]_vars

C5_Witness ==
    /\ last.op = "webhook" /\ last.redelivery
    /\ last.applied /\ last.appliedBefore
    /\ last.event.type = "invoice.payment_succeeded"
    /\ \E e \in RowsOf(last.event.obj.customer) :
          /\ users[e].updated_at = Iso(last.now)
          /\ last.now > 0

Tuple(row) == <<row.status, row.current_period_end, row.plan>>

\* C6: the status / current_period_end / plan tuple reached after a set of
\* webhook events is the same for every delivery order and duplication.
C6_OrderIndependent ==
    seenA = seenB =>
        \A e \in DOMAIN usersA : Tuple(usersA[e]) = Tuple(usersB[e])

ExpectedStatus(tok) ==
    CASE tok = "active" -> "active"
      [] tok = "trialing" -> "trialing"
      [] tok = "past_due" -> "past_due"
      [] tok = "unpaid" -> "past_due"
      [] tok = "canceled" -> "canceled"
      [] tok = "incomplete" -> "pending"
      [] tok = "incomplete_expired" -> "none"
      [] OTHER -> "none"

\* C7: mapStripeStatusToDb follows the mapping table and returns none for
\* every token outside the vocabulary.
C7_NormalizeTable ==
    \A i \in DOMAIN nzLog : nzLog[i][2] = ExpectedStatus(nzLog[i][1])

\* C8: a verified delivery whose handler fails, the store update returning
\* an error included, is answered 500 and never {received: true}.
C8_FailureIs500 ==
    (/\ last.op = "webhook"
     /\ last.handler # "none"
     /\ last.writes # {} /\ ~last.storeOk)
    => last.code = 500

\* C9: a paid invoice redelivered until the webhook answers success, with
\* store failures only transient, eventually leaves the record active.
C9_PaidConverges ==
    <>(\A e \in DOMAIN users : users[e].status = "active")

Unsigned == last'.op = "webhook" /\ ~(last'.sig = "valid" /\ last'.secret)

\* C10: a delivery with a missing or invalid signature, or to a server with
\* no webhook secret, is answered 400; no handler runs, no write is issued
\* and no record changes.
C10_RejectUnsigned ==
    [][Unsigned =>
        /\ last'.code = 400
        /\ last'.handler = "none"
        /\ last'.writes = {}
        /\ users' = users]_vars

C10_Witness ==
    /\ last.op = "webhook"
    /\ last.sig = "invalid" /\ last.secret
    /\ last.event.type = "invoice.payment_succeeded"
    /\ last.code = 400
    /\ \E e \in DOMAIN users : users[e].status = "awaiting_payment"

HandledTypes ==
    {"checkout.session.completed", "customer.subscription.updated",
     "customer.subscription.deleted", "invoice.payment_succeeded"}

VerifiedDelivery == last'.op = "webhook" /\ last'.sig = "valid" /\ last'.secret

\* C11: a verified delivery of an event whose type is none of the four
\* handled types is answered 200 ({received: true}); no handler runs, no
\* write is issued and every record is left unchanged.
C11_UnknownDropped ==
    [][(VerifiedDelivery /\ last'.event.type \notin HandledTypes) =>
        /\ last'.code = 200
        /\ last'.handler = "none"
        /\ last'.writes = {}
        /\ users' = users]_vars

C11_Witness ==
    /\ last.op = "webhook" /\ last.sig = "valid" /\ last.secret
    /\ last.event.type = "invoice.created"
    /\ last.code = 200
    /\ \E e \in DOMAIN users : users[e].status = "awaiting_payment"

\* C12: a verified invoice.payment_succeeded event whose invoice has no
\* subscription makes no call to the processor (so it succeeds also when
\* the customer retrieval would fail), issues no write, leaves every record
\* unchanged and is answered 200.
C12_NoSubscriptionIgnored ==
    [][(/\ VerifiedDelivery
        /\ last'.event.type = "invoice.payment_succeeded"
        /\ last'.event.obj.subscription = Null) =>
        /\ last'.calls = {}
        /\ last'.writes = {}
        /\ users' = users
        /\ last'.code = 200]_vars

C12_Witness ==
    /\ last.op = "webhook" /\ last.sig = "valid" /\ last.secret
    /\ last.event.type = "invoice.payment_succeeded"
    /\ last.event.obj.subscription = Null
    /\ ~last.event.up.custOk
    /\ last.code = 200 /\ last.calls = {}
    /\ \E e \in DOMAIN users : users[e].status = "awaiting_payment"

\* Two addresses that differ at most in letter case
SameEmail(a, b) == ToLower(a) = ToLower(b)

AccessAnswered == last'.op = "check-access" /\ last'.code = 200

C15_PaidRenewsPeriod ==
    (PaidDelivered /\ RowsOf(last.event.obj.customer) # {}) =>
        /\ \A e \in RowsOf(last.event.obj.customer) : users[e].status = "active"
        /\ \A w \in last.writes : "current_period_end" \in DOMAIN w.updates

DeletedApplied ==
    /\ last.op = "webhook"
    /\ last.event.type = "customer.subscription.deleted"
    /\ last.applied

\* C16 (scenario D): once the write of a customer.subscription.deleted event
\* is stored the record's status is canceled and the access rule gives false
\* for it, also while current_period_end is in the future; check-access
\* answers has_access = false for every canceled record.
C16_ScenarioD ==
    /\ DeletedApplied =>
          \A e \in RowsOf(last.event.obj.customer) :
              /\ users[e].status = "canceled"
              /\ HasAccess(users[e], now) = JsFalse
    /\ (Answered /\ last.found /\ last.user.status = "canceled") =>
          last.body.has_access = JsFalse

C16_Witness ==
    /\ DeletedApplied
    /\ \E e \in RowsOf(last.event.obj.customer) :
          /\ users[e].status = "canceled"
          /\ users[e].current_period_end # NoDate
          /\ ParseDate(users[e].current_period_end) > now
          /\ HasAccess(users[e], now) = JsFalse

CheckoutDone ==
    /\ last.op = "create-checkout-session" /\ last.code = 200
    /\ last.storeOk

\* C14 (scenario B): a create-checkout-session request for a new e-mail,
\* which creates a send_invoice subscription with no paid invoice, leaves
\* the record with status awaiting_payment, and the access rule then gives
\* has_access = false.
C14_ScenarioB ==
    (/\ CheckoutDone
     /\ "users.insert" \in last.calls
     /\ last.body.subscription_created
     /\ last.subscription.collection_method = "send_invoice"
     /\ last.subscription.invoice # "paid")
    => /\ users[last.row].status = "awaiting_payment"
       /\ HasAccess(users[last.row], now) = JsFalse

\* What the subscription-changed handler derives for the subscription the
\* route holds, its latest invoice retrieved
HandlerStatus(subscription) ==
    StrictStatus(subscription @@ [latest_invoice |-> "in_1"],
                 [NoUpstream EXCEPT !.invStatus = subscription.invoice])

\* C17: create-checkout-session stores the status the strict rule of the
\* subscription-changed handler derives: for a reused active send_invoice
\* subscription awaiting_payment only when its invoice is not paid, active
\* when it is paid.
C17_SameStrictRule ==
    (/\ CheckoutDone
     /\ ~last.body.subscription_created
     /\ StrictApplies(last.subscription))
    => users[last.row].status = HandlerStatus(last.subscription)

ActiveOrTrialing(customer) ==
    {i \in DOMAIN stripeSubscriptions :
        /\ stripeSubscriptions[i].customer = customer
        /\ stripeSubscriptions[i].status \in {"active", "trialing"}}

\* C18: after any sequence of sequential checkout requests every customer
\* has at most one active-or-trialing subscription created by the route (a
\* request that finds one reuses it and creates none).
C18_AtMostOneActive ==
    \A i \in DOMAIN stripeCustomers :
        Cardinality(ActiveOrTrialing(CustomerIdOf(i))) <= 1

CheckoutRequested == last'.op = "create-checkout-session"

StoredRef ==
    IF \E e \in DOMAIN users : ILike(last'.email, e)
    THEN {users[e].stripe_customer_id :
            e \in {x \in DOMAIN users : ILike(last'.email, x)}} \ {Null}
    ELSE {}

\* C19: create-checkout-session resolves the customer in three tiers: it
\* searches by e-mail only when the record stores no customer or retrieving
\* the stored one failed, and it creates a customer only after a search
\* that found none; it never adds a customer while the processor holds one
\* with the request's e-mail, and a stored customer that is retrieved is
\* the one the answer names.
C19_ThreeTiers ==
    [][(CheckoutRequested /\ last'.code \in {200, 500}) =>
        /\ "customers.list" \in last'.calls =>
              (StoredRef = {} \/ "customers.retrieve" \in last'.calls)
        /\ "customers.create" \in last'.calls =>
              /\ "customers.list" \in last'.calls
              /\ CustomersList(stripeCustomers, last'.email) = {}
        /\ stripeCustomers' # stripeCustomers =>
              /\ "customers.create" \in last'.calls
              /\ stripeCustomers' = Append(stripeCustomers, last'.email)
        /\ (last'.code = 200 /\ last'.tier = "stored") =>
              /\ last'.body.customer_id \in StoredRef
              /\ last'.calls \cap {"customers.list", "customers.create"} = {}]_vars

C19_Witness ==
    /\ last.op = "create-checkout-session" /\ last.code = 200
    /\ last.tier = "search"
    /\ "customers.retrieve" \in last.calls
    /\ "customers.list" \in last.calls
    /\ "customers.create" \notin last.calls
    /\ last.storeOk
    /\ users[last.row].stripe_customer_id = last.body.customer_id

KeyedOps == {"check-access", "create-checkout-session", "handler"}

\* C20: every endpoint other than the webhook, each create-checkout-session
\* handler included, runs its handler only for a request that carries the
\* configured key: a request whose key is missing or wrong is not answered
\* 200 and causes no store or processor call.
C20_KeyRequired ==
    [][(/\ last'.op \in KeyedOps
        /\ last'.key # "right" /\ last'.configured) =>
        /\ last'.code # 200
        /\ last'.op # "check-access" => last'.calls = {}
        /\ users' = users
        /\ stripeCustomers' = stripeCustomers
        /\ stripeSubscriptions' = stripeSubscriptions]_vars

WebhookApplied == last.op = "webhook" /\ last.applied

\* C23: every write of the four webhook handlers addresses the record by
\* the e-mail of the processor's customer object and sets updated_at to the
\* time of the write.
C23_ResolvedAndStamped ==
    WebhookApplied =>
        /\ \A w \in last.writes : w.email = CustomerEmail(last.event.obj.customer)
        /\ \A e \in RowsOf(last.event.obj.customer) :
              users[e].updated_at = Iso(last.now)

CheckoutCompleted ==
    /\ WebhookApplied
    /\ last.event.type = "checkout.session.completed"

\* C24: a checkout.session.completed event issues one write, which sets
\* status to active, subscription_id to the session's subscription and
\* current_period_end to the period end retrieved from the processor's
\* subscription, whatever the status of the record was.
C24_CheckoutGrants ==
    CheckoutCompleted =>
        /\ Cardinality(last.writes) = 1
        /\ \A w \in last.writes :
              DOMAIN w.updates = {"status", "subscription_id", "current_period_end"}
        /\ \A e \in RowsOf(last.event.obj.customer) :
              /\ users[e].status = "active"
              /\ users[e].subscription_id = last.event.obj.subscription
              /\ users[e].current_period_end =
                    ToISOString(last.event.up.subPeriodEnd)

C24_Witness ==
    /\ CheckoutCompleted
    /\ last.before = {"canceled"}
    /\ \E e \in RowsOf(last.event.obj.customer) :
          /\ users[e].status = "active"
          /\ users[e].subscription_id = "sub_1"
          /\ users[e].current_period_end = Iso(MaxPeriodEnd * MsPerSec)

\* C27: a check-access for an unseen e-mail whose insert fails is answered
\* 200 with has_access = false and leaves no record for the e-mail; a
\* check-access whose lookup fails is answered 500 and carries no
\* has_access at all.
C27_CreateFailureTolerated ==
    /\ (last.op = "check-access" /\ last.code = 200 /\ ~last.found) =>
          /\ last.body.has_access = JsFalse
          /\ \A e \in DOMAIN users : ~ILike(last.email, e)
    /\ (last.op = "check-access" /\ last.code # 200) =>
          "body" \notin DOMAIN last

C27_Witness ==
    /\ last.op = "check-access" /\ last.code = 200 /\ ~last.found
    /\ last.email = EmailLower
    /\ last.body.has_access = JsFalse
    /\ users = <<>>

FetchFailed ==
    /\ SubscriptionUpdated
    /\ last.event.obj.status = "active"
    /\ last.event.obj.collection_method = "send_invoice"
    /\ last.event.obj.latest_invoice # Null
    /\ last.event.up.custOk /\ ~last.event.up.invOk
    /\ last.event.obj.current_period_end # <<>>

\* C28: when the invoice retrieval of the strict check fails, the customer
\* retrieved and the event carrying a period end, handleSubscriptionUpdate
\* still writes: status active with the event's current_period_end, and the
\* delivery is answered 200.
C28_FetchFailureFallsBack ==
    FetchFailed =>
        /\ last.code = 200
        /\ Cardinality(last.writes) = 1
        /\ \A w \in last.writes :
              /\ w.updates.status = "active"
              /\ w.updates.current_period_end =
                    ToISOString(last.event.obj.current_period_end)

C28_Witness ==
    /\ FetchFailed /\ last.applied
    /\ last.event.up.invStatus = "open"
    /\ \E e \in RowsOf(last.event.obj.customer) : users[e].status = "active"

\* C26: whenever create-checkout-session answers 200 the record holds the
\* customer id and the subscription id of the answer and the status derived
\* for the subscription (a failed store update is answered with an error).
C26_NoHalfApplied ==
    (last.op = "create-checkout-session" /\ last.code = 200) =>
        /\ users[last.row].stripe_customer_id = last.body.customer_id
        /\ users[last.row].subscription_id = last.body.subscription_id
        /\ users[last.row].status = CheckoutStatus(last.subscription)

\* C21: after any sequence of check-access, create-checkout-session and
\* POST /users requests whose e-mails differ only in letter case, the store
\* holds exactly one record for the lower-cased e-mail: no two records have
\* e-mails that are equal once lower-cased.
C21_OneRecordPerEmail ==
    \A e1 \in DOMAIN users, e2 \in DOMAIN users :
        SameEmail(e1, e2) => e1 = e2

FrameFields == {"subscription_id", "stripe_customer_id", "plan"}

\* The step is a delivery that ran the subscription or the invoice handler
FrameHandlerRan ==
    /\ last'.op = "webhook"
    /\ last'.handler \in {"handleSubscriptionUpdate", "handleInvoicePaid"}

\* C22: once a record's subscription_id is set no operation clears it, and
\* the subscription-updated/deleted and invoice-paid handlers leave
\* subscription_id, stripe_customer_id and plan of every record unchanged.
C22_ReferenceKept ==
    [][\A e \in DOMAIN users :
          /\ users[e].subscription_id # Null =>
                (e \in DOMAIN users' /\ users'[e].subscription_id # Null)
          /\ FrameHandlerRan =>
                \A f \in FrameFields : users'[e][f] = users[e][f]]_vars

RaceDone == \A d \in Deliveries : inflight[d].phase = "done"

\* The table after the delivery d is handled alone, at time t, on tbl
Alone(tbl, d, t) ==
    StripeWebhookHandler(tbl, "valid", TRUE, inflight[d].event,
                         inflight[d].storeOk, t).users

TimePoints == {s * MsPerSec : s \in 0..MaxNow}

\* C25: when two deliveries for the same e-mail have been handled at once,
\* each issued at most one store write and the table is the one that handling
\* the two events one after the other gives, in one of the two orders: with
\* the clock readings the two handlers took, and also with the second run
\* no earlier than the first.
C25_Serializable ==
    RaceDone =>
        /\ \A d \in Deliveries : inflight[d].issued <= 1
        /\ \E x \in Deliveries, y \in Deliveries :
              /\ x # y
              /\ users = Alone(Alone(RaceTable, x, inflight[x].now),
                               y, inflight[y].now)
        /\ \E x \in Deliveries, y \in Deliveries, t1 \in TimePoints,
              t2 \in TimePoints :
              /\ x # y
              /\ t1 <= t2
              /\ users = Alone(Alone(RaceTable, x, t1), y, t2)

\* Both deliveries wrote different values, the later reader writing first
C25_Witness ==
    /\ RaceDone
    /\ inflight[1].issued = 1 /\ inflight[2].issued = 1
    /\ inflight[1].storeOk /\ inflight[2].storeOk
    /\ inflight[1].event.type = "invoice.payment_succeeded"
    /\ inflight[2].event.type = "customer.subscription.updated"
    /\ inflight[1].now > inflight[2].now
    /\ users[EmailLower].status = "awaiting_payment"
    /\ users[EmailLower].updated_at = Iso(inflight[1].now)

\* C30: two create-checkout-session requests for the same e-mail handled at
\* once create at most one customer and at most one subscription at the
\* processor for that e-mail.
C30_NoDuplicates ==
    /\ Cardinality(CustomersList(stripeCustomers, EmailLower)) <= 1
    /\ Cardinality({i \in DOMAIN stripeSubscriptions :
                      stripeSubscriptions[i].customer \in
                          {CustomerIdOf(c) :
                              c \in CustomersList(stripeCustomers, EmailLower)}}) <= 1

\* C29: while no invoice of the send_invoice subscription is paid (only
\* create-checkout-session requests and subscription-updated events were
\* processed), check-access never answers has_access = true.
C29_NoPrematureAccess ==
    Answered => last.body.has_access # JsTrue

\* C29 for the events alone: a record that received only subscription-updated
\* events of the unpaid subscription, and no checkout, has no access.
C29_NoAccessFromEvents ==
    (Answered /\ last.found /\ last.user.subscription_id = Null)
        => last.body.has_access # JsTrue

\* C31: a webhook write changes only the record whose e-mail equals the
\* customer's e-mail up to letter case; every record with another e-mail is
\* left as it was, also when the customer's e-mail holds '_' or '%', and no
\* record is created.
C31_OnlyTheCustomersRecord ==
    [][(last'.op = "webhook" /\ last'.applied) =>
          /\ DOMAIN users' = DOMAIN users
          /\ \A e \in DOMAIN users :
                ~SameEmail(e, CustomerEmail(last'.event.obj.customer))
                    => users'[e] = users[e]]_vars

Keyed(i) == rlLog[i].key # "none"

\* The start of the window the request i fell into
WindowStart(i) == rlLog[i].info.resetTime - limiter.windowMs

\* The requests up to i with the key of i, made since that window started
InWindow(i) ==
    {j \in 1..i : rlLog[j].key = rlLog[i].key /\ rlLog[j].now >= WindowStart(i)}

\* The request before i with the key of i, 0 when there is none
Previous(i) ==
    LET earlier == {j \in 1..(i - 1) : rlLog[j].key = rlLog[i].key}
    IN IF earlier = {} THEN 0 ELSE Latest(earlier)

RateLimited ==
    \A i \in DOMAIN rlLog :
        /\ ~Keyed(i) => rlLog[i].code = 0
        /\ Keyed(i) =>
              \* at most max requests of the key are passed on in a window
              /\ Cardinality({j \in InWindow(i) : rlLog[j].code = 0})
                    <= limiter.max
              \* the requests beyond max are answered 429, retryAfter positive
              /\ rlLog[i].code = (IF Cardinality(InWindow(i)) > limiter.max
                                  THEN 429 ELSE 0)
              /\ rlLog[i].code = 429 => rlLog[i].retryAfter > 0
              \* counted with the requests of its own key only; a request at
              \* or after resetTime starts a window with count 1
              /\ LET p == Previous(i)
                 IN IF p = 0 \/ rlLog[p].info.resetTime <= rlLog[i].now
                    THEN rlLog[i].info =
                            [count |-> 1,
                             resetTime |-> rlLog[i].now + limiter.windowMs]
                    ELSE rlLog[i].info =
                            [count |-> rlLog[p].info.count + 1,
                             resetTime |-> rlLog[p].info.resetTime]

\* C32 as stated, for every windowMs and max: at most max requests of a key
\* are passed on between the start of a window and its resetTime, each
\* further one is answered 429 with a positive retryAfter, the first request
\* at or after resetTime starts a window with count 1, and requests of other
\* keys or without a key are not counted against the key.
C32_RateLimited == RateLimited

\* C32 amended: the same for every limiter whose windowMs is positive.
C32_RateLimitedPositiveWindow ==
    limiter.windowMs > 0 => RateLimited

\* A key used up its window and was refused while another key and a request
\* without a key were passed on; after resetTime it was passed on again
C32_Witness ==
    /\ limiter.windowMs > 0
    /\ limiter.max = 1
    /\ Len(rlLog) = MaxRequests
    /\ \E i, j, k \in DOMAIN rlLog :
          /\ i < j /\ j < k
          /\ rlLog[i].key = "right" /\ rlLog[i].code = 0
          /\ rlLog[j].key = "right" /\ rlLog[j].code = 429
          /\ rlLog[j].retryAfter > 0
          /\ rlLog[k].key = "right" /\ rlLog[k].code = 0
          /\ rlLog[k].info.count = 1
          /\ rlLog[k].now >= rlLog[j].info.resetTime
    /\ \E o \in DOMAIN rlLog : rlLog[o].key # "right"

AirtableAnswered == last.op = "airtable/check-access" /\ last.code = 200

\* The statuses the processor has for the subscription the record names
ProcessorStatuses(user) ==
    {stripeSubscriptions[i].status :
        i \in {j \in DOMAIN stripeSubscriptions :
                  stripeSubscriptions[j].id = user.SubscriptionId}}

\* C33: in the Airtable backend check-access never answers has_access = true
\* for a user whose subscription is past_due or unpaid at the processor.
C33_PastDueDenied ==
    (AirtableAnswered /\ last.found
     /\ ProcessorStatuses(last.user) \cap {"past_due", "unpaid"} # {})
        => last.body.has_access # JsTrue

\* The part of C33 about the stored status: a record that holds the status
\* stored for past_due and unpaid, 'trialing', is answered without access.
C33_TrialingDenied ==
    (AirtableAnswered /\ last.found /\ last.user.Status = "trialing")
        => last.body.has_access = JsFalse

====
